---- MODULE Spec2Model ----
(***************************************************************************)
(* Writeback Actions engine of metabase.actions (src/src/metabase/         *)
(* actions.clj): argument-map contracts, the normalizer and handler        *)
(* multimethods, and perform-action!.                                      *)
(***************************************************************************)
EXTENDS Integers, Sequences, FiniteSets, TLC

\* ------------------------------------------------------------------ bounds
\* Largest integer tried as a :database / :source-table value.
MaxId == 1
\* Longest vector tried as a :filter value.
MaxFilterLen == 1
\* Largest Database id of the application database.
MaxDb == 1
\* The most rows a bulk request carries.
MaxBatch == 2
\* The most actions dispatched through the session middleware.
MaxActions == 2
\* The most times the cookie-polling timers fire.
MaxTicks == 3

\* ----------------------------------------------------- argument-map values
\* A value that may be absent, an integer n, or something that is no integer.
AbsentId == [t |-> "absent", n |-> 0]
OtherId == [t |-> "other", n |-> 0]
IntId(i) == [t |-> "int", n |-> i]
IdVals == {AbsentId, OtherId} \cup {IntId(i) : i \in 0..MaxId}

\* A :filter value: absent, a vector of n elements, or a non-vector.
AbsentFilter == [t |-> "absent", n |-> 0]
OtherFilter == [t |-> "other", n |-> 0]
VectorFilter(k) == [t |-> "vector", n |-> k]
FilterVals == {AbsentFilter, OtherFilter} \cup {VectorFilter(k) : k \in 0..MaxFilterLen}

\* A :query value: absent, a map (with its :source-table and :filter, written
\* in the current or in a legacy shape), or a non-map.
AbsentQuery == [t |-> "absent", sourceTable |-> AbsentId, filter |-> AbsentFilter, legacy |-> FALSE]
OtherQuery == [t |-> "other", sourceTable |-> AbsentId, filter |-> AbsentFilter, legacy |-> FALSE]
MapQuery(s, f, l) == [t |-> "map", sourceTable |-> s, filter |-> f, legacy |-> l]
QueryVals == {AbsentQuery, OtherQuery} \cup {MapQuery(s, f, l) : s \in IdVals, f \in FilterVals, l \in BOOLEAN}

\* Keys of a :create-row / :update-row map: a keyword or a string.
Keys == {":name", "name"}
IsKeyword(k) == k = ":name"
AbsentRow == [t |-> "absent", keys |-> {}]
OtherRow == [t |-> "other", keys |-> {}]
MapRow(ks) == [t |-> "map", keys |-> ks]
RowVals == {AbsentRow, OtherRow} \cup {MapRow(ks) : ks \in SUBSET Keys}

\* The :type of a query document: absent, :query or :native.
TypeVals == {"absent", "query", "native"}

ArgMap(d, ty, q, c, u) == [database |-> d, type |-> ty, query |-> q, createRow |-> c, updateRow |-> u]

\* ------------------------------------------------ contracts (clojure.spec)
\* :actions.args/id  (s/and integer? pos?)
ArgsId(v) == v.t = "int" /\ v.n > 0

\* :actions.args.crud.common/query  (s/keys :req-un [source-table])
CommonQuery(q) == q.t = "map" /\ q.sourceTable.t # "absent" /\ ArgsId(q.sourceTable)

\* :actions.args.crud/common  (s/keys :req-un [database query])
Common(m) == /\ m.database.t # "absent" /\ ArgsId(m.database)
             /\ m.query.t # "absent" /\ CommonQuery(m.query)

\* (s/map-of keyword? any? :min-count 1)
MapOfKeywordAnyNonEmpty(r) == r.t = "map" /\ r.keys # {} /\ \A k \in r.keys : IsKeyword(k)

\* (s/map-of keyword? any?)
MapOfKeywordAny(r) == r.t = "map" /\ \A k \in r.keys : IsKeyword(k)

\* :actions.args.crud.row.create/create-row
CreateRowSpec(r) == MapOfKeywordAny(r)

\* :actions.args.crud/row.create
RowCreate(m) == Common(m) /\ m.createRow.t # "absent" /\ CreateRowSpec(m.createRow)

\* :actions.args.crud.row.update.query/filter  vector?
UpdateFilterSpec(f) == f.t = "vector"

\* :actions.args.crud.row.update/query
UpdateQuery(q) == CommonQuery(q) /\ q.t = "map" /\ q.filter.t # "absent" /\ UpdateFilterSpec(q.filter)

\* :actions.args.crud.row.update/update-row
UpdateRowSpec(r) == MapOfKeywordAny(r)

\* :actions.args.crud/row.update
RowUpdate(m) == /\ Common(m)
                /\ m.updateRow.t # "absent" /\ UpdateRowSpec(m.updateRow)
                /\ m.query.t # "absent" /\ UpdateQuery(m.query)

\* :actions.args.crud.row.delete.query/filter  vector?
DeleteFilterSpec(f) == f.t = "vector"

\* :actions.args.crud.row.delete/query
DeleteQuery(q) == CommonQuery(q) /\ q.t = "map" /\ q.filter.t # "absent" /\ DeleteFilterSpec(q.filter)

\* :actions.args.crud/row.delete
RowDelete(m) == Common(m) /\ m.query.t # "absent" /\ DeleteQuery(m.query)

\* :actions.args.crud/bulk.delete  (s/coll-of row.delete), applied to a map:
\* the elements of a map are its entries, none of which is a row/delete map.
BulkDelete(m) == /\ m.database.t = "absent" /\ m.type = "absent" /\ m.query.t = "absent"
                 /\ m.createRow.t = "absent" /\ m.updateRow.t = "absent"

\* :actions.args.crud/bulk.delete applied to a sequence of rows: every element
\* conforms to row.delete.
BulkDeleteColl(batch) == \A i \in 1..Len(batch) : RowDelete(batch[i])

\* ------------------------------------------------------------ action names
RowActions == {"row/create", "row/update", "row/delete"}
\* "row/frob" stands for an action name nothing is defined for.
Actions == RowActions \cup {"bulk/delete", "row/frob"}

\* action-arg-map-spec: the contract registered for an action, default any?
ActionArgMapSpec(action) ==
    CASE action = "row/create" -> "row.create"
      [] action = "row/update" -> "row.update"
      [] action = "row/delete" -> "row.delete"
      [] action = "bulk/delete" -> "bulk.delete"
      [] OTHER -> "any"

Contracts == {"row.create", "row.update", "row.delete", "bulk.delete", "any"}

\* (not (s/invalid? (s/conform spec arg-map)))
Conform(spec, m) ==
    CASE spec = "row.create" -> RowCreate(m)
      [] spec = "row.update" -> RowUpdate(m)
      [] spec = "row.delete" -> RowDelete(m)
      [] spec = "bulk.delete" -> BulkDelete(m)
      [] OTHER -> TRUE

\* ------------------------------------------------- results of an operation
NoStatus == 0
NoHandler == <<"none", "none">>
\* A call that returned value v.
Returned(v) == [threw |-> FALSE, kind |-> "Ok", status |-> NoStatus, value |-> v]
\* A call that threw an exception of this kind, with this :status-code.
Thrown(kind, status, v) == [threw |-> TRUE, kind |-> kind, status |-> status, value |-> v]

\* ---------------------------------------------------------- the normalizer
\* A canonicalizer that rewrites the clause it is given whether or not it is
\* in the current shape already, so that a current clause comes out legacy.
MbqlNormalizeRewriteAlways(m) ==
    IF m.query.t = "map" THEN [m EXCEPT !.query.legacy = ~@] ELSE m

\* mbql.normalize/normalize: rewrites a legacy query shape into the current one.
MbqlNormalize(m) ==
    IF m.query.t = "map" THEN [m EXCEPT !.query.legacy = FALSE] ELSE m

\* schema/validate mbql.s/Query: a structured query has a query fragment with
\* a source table and, when it has a filter, a non-empty filter clause.
MbqlQueryValid(m) ==
    /\ m.type = "query"
    /\ m.query.t = "map"
    /\ ~m.query.legacy
    /\ ArgsId(m.query.sourceTable)
    /\ m.query.filter.t = "absent" \/ (m.query.filter.t = "vector" /\ m.query.filter.n > 0)

\* normalize-as-mbql-query
NormalizeAsMbqlQuery(query) ==
    LET q == [MbqlNormalize(query) EXCEPT !.type = "query"]
    IN  IF ~MbqlQueryValid(q) THEN Thrown("QueryGrammar", 400, q) ELSE Returned(q)

\* Number of parameters of the dispatch function of normalize-action-arg-map.
NormalizeDispatchArity == 2
\* Number of parameters of its :row/create, :row/update, :row/delete methods.
NormalizeRowMethodArity == 1
\* Number of parameters of its :default method.
NormalizeDefaultMethodArity == 2

\* An invocation of the multimethod normalize-action-arg-map with the
\* argument list args: the dispatch function is applied to args, then the
\* method of its dispatch value is applied to args.
NormalizeActionArgMap(args) ==
    IF Len(args) # NormalizeDispatchArity
    THEN Thrown("ArityException", NoStatus, args[Len(args)])
    ELSE IF args[1] \in RowActions
         THEN IF Len(args) # NormalizeRowMethodArity
              THEN Thrown("ArityException", NoStatus, args[Len(args)])
              ELSE NormalizeAsMbqlQuery(args[1])
         ELSE IF Len(args) # NormalizeDefaultMethodArity
              THEN Thrown("ArityException", NoStatus, args[Len(args)])
              ELSE Returned(args[2])

\* ------------------------------------------------------------- environment
VARIABLES
    globalFlag,   \* the setting experimental-enable-actions (lines 16-20)
    currentUser,  \* api/*current-user*: "none" (unbound), "admin" or "user" (line 142)
    store,        \* the Databases (Database id) finds, by id (line 126)
    registry,     \* the [driver action] keys perform-action!* has methods for (lines 60-81)
    last,         \* the call in progress and its outcome, NoCall between calls
    session,      \* the session middleware: its timer, the cookie, what it forwarded
                  \* and what its timers dispatched (session-middleware.js)
    threads       \* per thread: where its perform-action! call stands, and the
                  \* frames (binding ...) has pushed on it for
                  \* setting/*database-local-values* (line 134)

vars == <<globalFlag, currentUser, store, registry, last, threads, session>>

\* ------------------------------------------------- the session middleware
\* The types of the actions dispatched through the store.
ActionTypes == {"LOGIN", "OTHER"}
\* The ids setInterval gives the timers it creates; 0 is no timer (null).
TimerIds == 1..MaxActions
NoTimer == 0
\* What the redirect parameter of the location is.
Redirects == {"absent", "sameOrigin", "otherOrigin"}

\* The middleware createSessionMiddleware(resetActions) has just returned, in
\* a page with this cookie and this redirect parameter.
NewSession(resetActions, cookie, redirect) ==
    [resetActions |-> resetActions,  \* line 20
     intervalId |-> NoTimer,         \* line 23
     created |-> 0,                  \* timers created so far
     live |-> {},                    \* timers set and not cleared
     wasLoggedIn |-> [i \in TimerIds |-> FALSE],  \* line 29, one per timer
     cookie |-> cookie,              \* Cookies.get(SESSION_KEY) is defined
     redirect |-> redirect,          \* window.location.search
     received |-> <<>>,              \* the actions passed to the middleware
     forwarded |-> <<>>,             \* the actions passed to next
     ticks |-> 0,                    \* times a timer has fired
     awaiting |-> {},                \* callbacks suspended at the await of line 38
     log |-> <<>>]                   \* what the callbacks of the timers did
NoSession == NewSession({}, FALSE, "absent")

\* getIsLoggedIn
GetIsLoggedIn(s) == s.cookie
\* getRedirectUrl: the redirect parameter when it is of the same origin.
GetRedirectUrl(s) == IF s.redirect = "sameOrigin" THEN "url" ELSE "null"
\* clearInterval(id)
ClearInterval(live, id) == live \ {id}

\* sessionMiddlware without the clearInterval of line 27.
SessionMiddlewareNoClear(s, type) ==
    LET id == s.created + 1
        t == [s EXCEPT !.received = Append(@, type), !.forwarded = Append(@, type)]
    IN  IF s.intervalId = NoTimer \/ type \in s.resetActions
        THEN [t EXCEPT !.wasLoggedIn[id] = GetIsLoggedIn(s), !.live = s.live \cup {id},
                       !.intervalId = id, !.created = id]
        ELSE t

\* sessionMiddlware that returns at the end of the block of lines 26-50
\* instead of going on to next(action).
SessionMiddlewareReturnsEarly(s, type) ==
    LET id == s.created + 1
    IN  IF s.intervalId = NoTimer \/ type \in s.resetActions
        THEN [s EXCEPT !.received = Append(@, type),
                       !.wasLoggedIn[id] = GetIsLoggedIn(s),
                       !.live = ClearInterval(s.live, s.intervalId) \cup {id},
                       !.intervalId = id, !.created = id]
        ELSE [s EXCEPT !.received = Append(@, type), !.forwarded = Append(@, type)]

\* sessionMiddlware(store)(next)(action) for an action of this type.
SessionMiddleware(s, type) ==
    LET id == s.created + 1
        t == [s EXCEPT !.received = Append(@, type), !.forwarded = Append(@, type)]
    IN  IF s.intervalId = NoTimer \/ type \in s.resetActions
        THEN [t EXCEPT !.wasLoggedIn[id] = GetIsLoggedIn(s),
                       !.live = ClearInterval(s.live, s.intervalId) \cup {id},
                       !.intervalId = id, !.created = id]
        ELSE t

\* What a callback did: its timer, the firing it belongs to, the login status
\* its timer remembered and the one it saw, and what it dispatched.
LogEntry(i, tick, was, seen, what) ==
    [timer |-> i, tick |-> tick, was |-> was, seen |-> seen, what |-> what]

\* The callback of timer i without the assignment of line 35.
PollTickNoRemember(s, i) ==
    LET isLoggedIn == GetIsLoggedIn(s)
        tick == s.ticks + 1
        was == s.wasLoggedIn[i]
    IN  IF isLoggedIn # was
        THEN IF isLoggedIn
             THEN [s EXCEPT !.ticks = tick,
                            !.awaiting = @ \cup {[timer |-> i, tick |-> tick]},
                            !.log = Append(@, LogEntry(i, tick, was, isLoggedIn, "refreshSession"))]
             ELSE [s EXCEPT !.ticks = tick,
                            !.log = Append(@, LogEntry(i, tick, was, isLoggedIn, "logout"))]
        ELSE [s EXCEPT !.ticks = tick,
                       !.log = Append(@, LogEntry(i, tick, was, isLoggedIn, "nothing"))]

\* The callback of timer i fires and runs up to its await or its end.
PollTick(s, i) ==
    LET isLoggedIn == GetIsLoggedIn(s)
        tick == s.ticks + 1
        was == s.wasLoggedIn[i]
    IN  IF isLoggedIn # was
        THEN IF isLoggedIn
             THEN [s EXCEPT !.ticks = tick, !.wasLoggedIn[i] = isLoggedIn,
                            !.awaiting = @ \cup {[timer |-> i, tick |-> tick]},
                            !.log = Append(@, LogEntry(i, tick, was, isLoggedIn, "refreshSession"))]
             ELSE [s EXCEPT !.ticks = tick, !.wasLoggedIn[i] = isLoggedIn,
                            !.log = Append(@, LogEntry(i, tick, was, isLoggedIn, "logout"))]
        ELSE [s EXCEPT !.ticks = tick,
                       !.log = Append(@, LogEntry(i, tick, was, isLoggedIn, "nothing"))]

\* The refreshSession a callback c awaits settles: when it resolved the
\* callback goes on to lines 39-43, when it rejected the callback ends.
AfterRefresh(s, c, resolved) ==
    LET done == Append(s.log, LogEntry(c.timer, c.tick, FALSE, TRUE, "refreshDone"))
    IN  IF ~resolved THEN [s EXCEPT !.awaiting = @ \ {c}]
        ELSE IF GetRedirectUrl(s) # "null"
        THEN [s EXCEPT !.awaiting = @ \ {c},
                       !.log = Append(done, LogEntry(c.timer, c.tick, FALSE, TRUE, "replace"))]
        ELSE [s EXCEPT !.awaiting = @ \ {c}, !.log = done]

\* driver/hierarchy: each driver with its parent ("none" at the root).
Drivers == {"sql", "sql-jdbc", "h2", "mongo"}
Parent(d) ==
    CASE d = "h2" -> "sql-jdbc"
      [] d = "sql-jdbc" -> "sql"
      [] OTHER -> "none"
\* The drivers a Database can have as its engine.
Engines == {"h2", "mongo"}
\* driver/database-supports? driver :actions
ActionDrivers == {"sql", "sql-jdbc", "h2"}

DbIds == 1..MaxDb
NoResource == [present |-> FALSE, id |-> 0, engine |-> "nil", enableActions |-> "unset"]
Resources == [present : {TRUE}, id : DbIds, engine : Engines, enableActions : {"on", "off", "unset"}]

\* (Database database-id): the Database with this id, or nil.
Database(v) ==
    IF v.t = "int" /\ v.n \in DOMAIN store THEN store[v.n] ELSE NoResource

\* The keys a driver implementation may define a perform-action!* method for.
HandlerKeys == {<<"sql", "row/create">>, <<"sql-jdbc", "row/create">>, <<"h2", "row/create">>, <<"mongo", "row/delete">>}

\* ----------------------------------------------------------- the registry
\* (isa? driver/hierarchy child ancestor)
RECURSIVE Isa(_, _)
Isa(d, a) ==
    IF d = a THEN TRUE ELSE IF Parent(d) = "none" THEN FALSE ELSE Isa(Parent(d), a)

\* known-actions: the second element of every sequential key of the methods.
KnownActions == {k[2] : k \in registry}

\* Method selection of a perform-action!* declared without
\* :hierarchy #'driver/hierarchy: only the method of the driver itself.
ResolveMethodExactOnly(driver, action) ==
    IF <<driver, action>> \in registry THEN <<driver, action>> ELSE NoHandler

\* The method perform-action!* selects for the dispatch value [driver action]:
\* the method registered for it, else the most specific method registered for
\* an ancestor of driver, else :default (NoHandler).
ResolveMethod(driver, action) ==
    LET applicable == {k \in registry : k[2] = action /\ Isa(driver, k[1])}
    IN  IF applicable = {} THEN NoHandler
        ELSE CHOOSE k \in applicable : \A k2 \in applicable : Isa(k[1], k2[1])

\* Number of parameters of the dispatch function of perform-action!*.
PerformActionStarDispatchArity == 4
\* Number of parameters of its :default method.
PerformActionStarDefaultArity == 3

\* The :default method of perform-action!*.
PerformActionStarDefault(driver, action, argMap) ==
    IF action \notin KnownActions
    THEN Thrown("UnknownAction", 404, argMap)
    ELSE Thrown("UnsupportedConnector", 400, argMap)

\* The outcome of an operation: its result, the method that ran (NoHandler
\* when none did) and the collaborators it consulted.
Outcome(r, h, reads) ==
    [threw |-> r.threw, kind |-> r.kind, status |-> r.status, args |-> r.value,
     handler |-> h, reads |-> reads]

\* An invocation of the multimethod perform-action!* with the argument list
\* args; a driver's method returns or throws as hres says.
PerformActionStar(args, hres, reads) ==
    IF Len(args) # PerformActionStarDispatchArity
    THEN Outcome(Thrown("ArityException", NoStatus, args[Len(args)]), NoHandler, reads)
    ELSE IF args[1] = "nil"
    THEN Outcome(Thrown("DriverFailure", NoStatus, args[4]), NoHandler, reads)
    ELSE LET method == ResolveMethod(args[1], args[2])
         IN  IF method = NoHandler
             THEN IF Len(args) # PerformActionStarDefaultArity
                  THEN Outcome(Thrown("ArityException", NoStatus, args[4]), NoHandler, reads)
                  ELSE Outcome(PerformActionStarDefault(args[1], args[2], args[3]), NoHandler, reads)
             ELSE IF hres = "Ok"
                  THEN Outcome(Returned(args[4]), method, reads)
                  ELSE Outcome(Thrown("HandlerFailure", NoStatus, args[4]), method, reads)

\* ---------------------------------------------------------- perform-action!
\* driver/database-supports? driver :actions db; what it does for the nil
\* driver of a Database that was not found is nilCap.
DatabaseSupports(driver, nilCap) ==
    IF driver = "nil" THEN nilCap
    ELSE IF driver \in ActionDrivers THEN "true" ELSE "false"

\* (database-enable-actions) with *database-local-values* bound to the
\* Database's settings: the Database-local value, default false.
DatabaseEnableActions(db) == db.enableActions = "on"

\* (when api/*current-user* (api/check-superuser)) lets the call through.
SuperuserCheckPasses == currentUser \in {"none", "admin"}

\* perform-action! reduced to its Database lookup and its hand-off to
\* perform-action!* (lines 113-123 and 127-143 dropped).
PerformActionUnchecked(action, argMap, hres, nilCap) ==
    LET db == Database(argMap.database)
    IN  PerformActionStar(<<db.engine, action, db, argMap>>, hres, {"store"})

\* The body of (binding [setting/*database-local-values* values] ...) in
\* perform-action!: the Database-local flag read from the values bound for the
\* calling thread, the superuser check, the hand-off to perform-action!*.
PerformActionInBinding(values, driver, action, db, m, hres) ==
    IF ~DatabaseEnableActions(values)
    THEN Outcome(Thrown("DisabledForResource", 400, m), NoHandler,
                 {"global", "store", "capability", "local"})
    ELSE IF ~SuperuserCheckPasses
    THEN Outcome(Thrown("Unauthorized", 403, m), NoHandler,
                 {"global", "store", "capability", "local", "caller"})
    ELSE PerformActionStar(<<driver, action, db, m>>, hres,
                 {"global", "store", "capability", "local", "caller"})

\* perform-action! from its validation up to the binding: the contract, the
\* global flag, the Database lookup and the driver's capability, for the
\* normalized argument m whose conformance to the contract of the action is
\* valid and whose :database is dbv. It throws or goes on with m.
PerformActionBeforeBinding(action, m, valid, dbv, nilCap) ==
    LET db == Database(dbv)
        cap == DatabaseSupports(db.engine, nilCap)
    IN  IF ~valid
        THEN Outcome(Thrown("ValidationFailure", NoStatus, m), NoHandler, {})
        ELSE IF ~globalFlag
        THEN Outcome(Thrown("FeatureDisabled", 400, m), NoHandler, {"global"})
        ELSE IF cap = "throws"
        THEN Outcome(Thrown("DriverFailure", NoStatus, m), NoHandler,
                     {"global", "store", "capability"})
        ELSE IF cap = "false"
        THEN Outcome(Thrown("UnsupportedConnector", 400, m), NoHandler,
                     {"global", "store", "capability"})
        ELSE Outcome(Returned(m), NoHandler, {"global", "store", "capability"})

\* perform-action! from its validation on: the Database's settings are bound
\* around the body.
PerformActionGates(action, m, valid, dbv, hres, nilCap) ==
    LET db == Database(dbv)
        pre == PerformActionBeforeBinding(action, m, valid, dbv, nilCap)
    IN  IF pre.threw THEN pre
        ELSE PerformActionInBinding(db, db.engine, action, db, m, hres)

\* perform-action! up to the binding, normalization included.
PerformActionEnter(action, argMap, nilCap) ==
    LET norm == NormalizeActionArgMap(<<argMap>>)
    IN  IF norm.threw THEN Outcome(norm, NoHandler, {})
        ELSE PerformActionBeforeBinding(action, norm.value,
                                        Conform(ActionArgMapSpec(action), norm.value),
                                        norm.value.database, nilCap)

\* perform-action! applied to (action, argMap).
PerformAction(action, argMap, hres, nilCap) ==
    LET spec == ActionArgMapSpec(action)
        norm == NormalizeActionArgMap(<<argMap>>)
    IN  IF norm.threw THEN Outcome(norm, NoHandler, {})
        ELSE PerformActionGates(action, norm.value, Conform(spec, norm.value),
                                norm.value.database, hres, nilCap)

\* The argument map with no key at all.
NoArgs == ArgMap(AbsentId, "absent", AbsentQuery, AbsentRow, AbsentRow)

\* perform-action! applied to ("bulk/delete", batch), batch a sequence of
\* rows: a sequence has no :database for the lookup of line 126 to find.
PerformActionBulk(batch, hres, nilCap) ==
    LET norm == NormalizeActionArgMap(<<batch>>)
    IN  IF norm.threw THEN Outcome(Thrown(norm.kind, norm.status, NoArgs), NoHandler, {})
        ELSE PerformActionGates("bulk/delete", NoArgs, BulkDeleteColl(norm.value),
                                AbsentId, hres, nilCap)

\* --------------------------------------------------------------- behaviour
NoCall == [op |-> "none", action |-> "none", argMap |-> NoArgs, batch |-> <<>>, target |-> NoResource,
           out |-> Outcome(Returned(NoArgs), NoHandler, {})]

\* The threads that call perform-action! at the same time.
Threads == {"t1", "t2"}
NoThread == [pc |-> "idle", action |-> "none", argMap |-> NoArgs, frames |-> <<>>,
             out |-> Outcome(Returned(NoArgs), NoHandler, {})]
NoThreads == [t \in Threads |-> NoThread]

\* Every argument map of the bounded value sets.
ArgMaps == {ArgMap(d, ty, q, c, u) : d \in IdVals, ty \in TypeVals, q \in QueryVals, c \in RowVals, u \in RowVals}

\* The argument maps the engine is called with: a full row-family document for
\* each Database id, the same without its filter, without its :database, and
\* without its :query.
FullArgs(id, f) == ArgMap(IntId(id), "query", MapQuery(IntId(1), f, FALSE), MapRow({":name"}), MapRow({":name"}))
CallArgMaps ==
    {FullArgs(id, f) : id \in DbIds, f \in {AbsentFilter, VectorFilter(1)}}
    \cup {ArgMap(AbsentId, "query", MapQuery(IntId(1), VectorFilter(1), FALSE), MapRow({":name"}), MapRow({":name"})),
          ArgMap(IntId(1), "absent", AbsentQuery, MapRow({":name"}), MapRow({":name"}))}

\* The bulk requests the engine is called with, of up to MaxBatch rows.
RECURSIVE SeqsUpTo(_, _)
SeqsUpTo(S, n) ==
    IF n = 0 THEN {<<>>}
    ELSE LET shorter == SeqsUpTo(S, n - 1)
         IN  shorter \cup {Append(b, x) : b \in shorter, x \in S}
Batches == SeqsUpTo(CallArgMaps, MaxBatch)

HandlerResults == {"Ok", "HandlerFailure"}
NilCapabilities == {"true", "false", "throws"}

Init ==
    /\ globalFlag \in BOOLEAN
    /\ currentUser \in {"none", "admin", "user"}
    /\ store \in [DbIds -> Resources \cup {NoResource}]
    /\ \A id \in DbIds : store[id].present => store[id].id = id
    /\ registry \in SUBSET HandlerKeys
    /\ last = NoCall
    /\ threads = NoThreads
    /\ session = NoSession

\* A caller invokes (perform-action! action arg-map).
CallPerformAction ==
    /\ last = NoCall
    /\ \E action \in Actions, m \in CallArgMaps, hres \in HandlerResults, nilCap \in NilCapabilities :
        /\ last' = [op |-> "performAction", action |-> action, argMap |-> m, batch |-> <<>>,
                    target |-> Database(m.database),
                    out |-> PerformAction(action, m, hres, nilCap)]
        /\ UNCHANGED <<globalFlag, currentUser, store, registry, threads, session>>

\* A caller invokes (perform-action!* driver action database arg-map) for a
\* Database of the store.
CallPerformActionStar ==
    /\ last = NoCall
    /\ \E id \in DbIds, action \in Actions, m \in CallArgMaps, hres \in HandlerResults :
        /\ store[id].present
        /\ last' = [op |-> "performActionStar", action |-> action, argMap |-> m, batch |-> <<>>,
                    target |-> store[id],
                    out |-> PerformActionStar(<<store[id].engine, action, store[id], m>>, hres, {})]
        /\ UNCHANGED <<globalFlag, currentUser, store, registry, threads, session>>

\* A caller invokes (perform-action! :bulk/delete batch).
CallPerformActionBulk ==
    /\ last = NoCall
    /\ \E batch \in Batches, hres \in HandlerResults, nilCap \in NilCapabilities :
        /\ last' = [op |-> "performActionBulk", action |-> "bulk/delete", argMap |-> NoArgs,
                    batch |-> batch, target |-> NoResource,
                    out |-> PerformActionBulk(batch, hres, nilCap)]
        /\ UNCHANGED <<globalFlag, currentUser, store, registry, threads, session>>

\* The caller takes the result of its call.
Return ==
    /\ last # NoCall
    /\ last' = NoCall
    /\ UNCHANGED <<globalFlag, currentUser, store, registry, threads, session>>

\* The handler +check-actions-enabled wraps, as the method that ran.
RingHandler == <<"ring", "handler">>

\* ((+check-actions-enabled handler) request respond raise)
CheckActionsEnabled ==
    IF globalFlag
    THEN Outcome(Returned(NoArgs), RingHandler, {"global"})
    ELSE Outcome(Thrown("FeatureDisabled", 400, NoArgs), NoHandler, {"global"})

\* A request goes through the middleware +check-actions-enabled.
CallCheckActionsEnabled ==
    /\ last = NoCall
    /\ last' = [op |-> "checkActionsEnabled", action |-> "none", argMap |-> NoArgs,
                batch |-> <<>>, target |-> NoResource, out |-> CheckActionsEnabled]
    /\ UNCHANGED <<globalFlag, currentUser, store, registry, threads, session>>

\* Between two calls a Database is added to the application database,
\* removed from it, moved to another engine or has its settings changed.
UpdateDatabase ==
    /\ last = NoCall
    /\ \E id \in DbIds, r \in Resources \cup {NoResource} :
        /\ r.present => r.id = id
        /\ r # store[id]
        /\ store' = [store EXCEPT ![id] = r]
    /\ UNCHANGED <<globalFlag, currentUser, registry, last, threads, session>>

Next ==
    \/ CallPerformAction
    \/ CallPerformActionStar
    \/ CallPerformActionBulk
    \/ CallCheckActionsEnabled
    \/ UpdateDatabase
    \/ Return

Spec == Init /\ [][Next]_vars

\* ----------------------------------------------- the contracts on their own
InitContract ==
    /\ globalFlag = FALSE
    /\ currentUser = "none"
    /\ store = [id \in DbIds |-> NoResource]
    /\ registry = {}
    /\ last = NoCall
    /\ threads = NoThreads
    /\ session = NoSession

\* (s/conform spec arg-map) for a contract and an argument map.
ConformContract ==
    /\ last = NoCall
    /\ \E spec \in Contracts, m \in ArgMaps :
        /\ last' = [op |-> "conform", action |-> spec, argMap |-> m, batch |-> <<>>, target |-> NoResource,
                    out |-> IF Conform(spec, m)
                            THEN Outcome(Returned(m), NoHandler, {})
                            ELSE Outcome(Thrown("ValidationFailure", NoStatus, m), NoHandler, {})]
        /\ UNCHANGED <<globalFlag, currentUser, store, registry, threads, session>>

\* (s/conform :actions.args.crud/bulk.delete batch) for a sequence of rows.
ConformBulk ==
    /\ last = NoCall
    /\ \E batch \in Batches :
        /\ last' = [op |-> "conformBulk", action |-> "bulk.delete", argMap |-> NoArgs,
                    batch |-> batch, target |-> NoResource,
                    out |-> IF BulkDeleteColl(batch)
                            THEN Outcome(Returned(NoArgs), NoHandler, {})
                            ELSE Outcome(Thrown("ValidationFailure", NoStatus, NoArgs), NoHandler, {})]
        /\ UNCHANGED <<globalFlag, currentUser, store, registry, threads, session>>

\* (normalize-as-mbql-query query) for an argument map.
ApplyNormalizer ==
    /\ last = NoCall
    /\ \E m \in ArgMaps :
        /\ last' = [op |-> "normalize", action |-> "row/*", argMap |-> m, batch |-> <<>>,
                    target |-> NoResource,
                    out |-> Outcome(NormalizeAsMbqlQuery(m), NoHandler, {})]
        /\ UNCHANGED <<globalFlag, currentUser, store, registry, threads, session>>

NextContract == ConformContract \/ ConformBulk \/ ApplyNormalizer \/ Return

SpecContract == InitContract /\ [][NextContract]_vars

\* ------------------------------------------- perform-action! on two threads
\* The Database ids of the application database the threads work on: enough
\* for two calls to have different targets.
ThreadDbIds == 1..(MaxDb + 1)
\* The actions the threads ask for, with a full document for their Database.
ThreadActions == {"row/create", "row/delete"}

InitThreads ==
    /\ globalFlag \in BOOLEAN
    /\ currentUser \in {"none", "admin", "user"}
    /\ store \in [ThreadDbIds -> [present : {TRUE}, id : ThreadDbIds, engine : Engines,
                                   enableActions : {"on", "off", "unset"}] \cup {NoResource}]
    /\ \A id \in ThreadDbIds : store[id].present => store[id].id = id
    /\ registry = HandlerKeys
    /\ last = NoCall
    /\ threads = NoThreads
    /\ session = NoSession

\* The value of setting/*database-local-values* a thread sees: the innermost
\* frame bound on that thread, nil outside every binding.
LocalValues(frames) == IF frames = <<>> THEN NoResource ELSE frames[Len(frames)]
\* The frames of a thread once the innermost binding is left.
PopFrame(frames) == SubSeq(frames, 1, Len(frames) - 1)

\* perform-action! that skips lines 113-132 and, in place of (binding ...),
\* sets the root value of setting/*database-local-values*, which every
\* thread sees, and sets it back on the way out.
ThreadStepRootBinding(t) ==
    LET th == threads[t]
    IN  /\ th.pc \in {"idle", "bound", "unwind"}
        /\ IF th.pc = "idle"
           THEN \E action \in ThreadActions, id \in DOMAIN store :
                    LET m == FullArgs(id, VectorFilter(1))
                    IN  threads' = [u \in Threads |->
                            IF u = t
                            THEN [pc |-> "bound", action |-> action, argMap |-> m,
                                  frames |-> <<Database(m.database)>>,
                                  out |-> Outcome(Returned(m), NoHandler, {"store"})]
                            ELSE [threads[u] EXCEPT !.frames = <<Database(m.database)>>]]
           ELSE IF th.pc = "bound"
           THEN \E hres \in HandlerResults :
                    LET db == Database(th.out.args.database)
                    IN  threads' = [threads EXCEPT ![t].pc = "unwind",
                            ![t].out = PerformActionInBinding(LocalValues(th.frames), db.engine,
                                                              th.action, db, th.out.args, hres)]
           ELSE threads' = [u \in Threads |->
                            IF u = t THEN [th EXCEPT !.pc = "done", !.frames = <<>>]
                            ELSE [threads[u] EXCEPT !.frames = <<>>]]
        /\ UNCHANGED <<globalFlag, currentUser, store, registry, last, session>>

\* perform-action! that skips lines 113-132 and pushes the Database's
\* settings without popping them on the way out.
ThreadStepNoRestore(t) ==
    LET th == threads[t]
    IN  /\ th.pc \in {"idle", "bound"}
        /\ IF th.pc = "idle"
           THEN \E action \in ThreadActions, id \in DOMAIN store :
                    LET m == FullArgs(id, VectorFilter(1))
                    IN  threads' = [threads EXCEPT ![t] =
                            [pc |-> "bound", action |-> action, argMap |-> m,
                             frames |-> Append(th.frames, Database(m.database)),
                             out |-> Outcome(Returned(m), NoHandler, {"store"})]]
           ELSE \E hres \in HandlerResults :
                    LET db == Database(th.out.args.database)
                    IN  threads' = [threads EXCEPT ![t].pc = "done",
                            ![t].out = PerformActionInBinding(LocalValues(th.frames), db.engine,
                                                              th.action, db, th.out.args, hres)]
        /\ UNCHANGED <<globalFlag, currentUser, store, registry, last, session>>

\* One step of thread t in (perform-action! action arg-map): from the call
\* to the binding (lines 113-134), then the body of the binding with the
\* values bound on this thread (lines 136-145), then the way out of the
\* binding, which pops the frame whether the body returned or threw.
ThreadStep(t) ==
    LET th == threads[t]
    IN  /\ th.pc \in {"idle", "bound", "unwind"}
        /\ IF th.pc = "idle"
           THEN \E action \in ThreadActions, id \in DOMAIN store, nilCap \in NilCapabilities :
                    LET m == FullArgs(id, VectorFilter(1))
                        e == PerformActionEnter(action, m, nilCap)
                    IN  threads' = [threads EXCEPT ![t] =
                            [pc |-> IF e.threw THEN "done" ELSE "bound",
                             action |-> action, argMap |-> m,
                             frames |-> IF e.threw THEN th.frames
                                        ELSE Append(th.frames, Database(e.args.database)),
                             out |-> e]]
           ELSE IF th.pc = "bound"
           THEN \E hres \in HandlerResults :
                    LET db == Database(th.out.args.database)
                    IN  threads' = [threads EXCEPT ![t].pc = "unwind",
                            ![t].out = PerformActionInBinding(LocalValues(th.frames), db.engine,
                                                              th.action, db, th.out.args, hres)]
           ELSE threads' = [threads EXCEPT ![t].pc = "done", ![t].frames = PopFrame(th.frames)]
        /\ UNCHANGED <<globalFlag, currentUser, store, registry, last, session>>

\* The caller on thread t takes the result of its call.
ThreadReturn(t) ==
    /\ threads[t].pc = "done"
    /\ threads' = [threads EXCEPT ![t] = [NoThread EXCEPT !.frames = threads[t].frames]]
    /\ UNCHANGED <<globalFlag, currentUser, store, registry, last, session>>

NextThreads == \E t \in Threads : ThreadStep(t) \/ ThreadReturn(t)

SpecThreads == InitThreads /\ [][NextThreads]_vars

\* ------------------------------------------ the session middleware at work
InitSession ==
    /\ globalFlag = FALSE
    /\ currentUser = "none"
    /\ store = [id \in DbIds |-> NoResource]
    /\ registry = {}
    /\ last = NoCall
    /\ threads = NoThreads
    /\ \E resetActions \in SUBSET ActionTypes, cookie \in BOOLEAN, redirect \in Redirects :
        session = NewSession(resetActions, cookie, redirect)

\* An action is dispatched through the store and reaches the middleware.
DispatchAction ==
    /\ Len(session.received) < MaxActions
    /\ \E type \in ActionTypes : session' = SessionMiddleware(session, type)
    /\ UNCHANGED <<globalFlag, currentUser, store, registry, last, threads>>

\* COOKIE_POOLING_TIMEOUT has passed for a timer that is set.
TimerFires ==
    /\ session.ticks < MaxTicks
    /\ \E i \in session.live : session' = PollTick(session, i)
    /\ UNCHANGED <<globalFlag, currentUser, store, registry, last, threads>>

\* The refreshSession a callback awaits resolves or rejects.
RefreshSettles ==
    /\ \E c \in session.awaiting, resolved \in BOOLEAN : session' = AfterRefresh(session, c, resolved)
    /\ UNCHANGED <<globalFlag, currentUser, store, registry, last, threads>>

\* The session cookie is set (a login) or removed (a logout, an expiry).
CookieChanges ==
    /\ session' = [session EXCEPT !.cookie = ~@]
    /\ UNCHANGED <<globalFlag, currentUser, store, registry, last, threads>>

NextSession == DispatchAction \/ TimerFires \/ RefreshSettles \/ CookieChanges

SpecSession == InitSession /\ [][NextSession]_vars

\* ------------------------------------------------------------------ claims
IsPerformAction == last.op = "performAction"
IsConform == last.op = "conform"
HandlerInvoked == last.out.handler # NoHandler

\* The argument map the normalizer registered for an action is to produce.
NormalForm(action, m) ==
    IF action \in RowActions THEN [MbqlNormalize(m) EXCEPT !.type = "query"] ELSE m
\* The stamped query of a row-family call satisfies the query grammar.
GrammarHolds(action, m) == action \in RowActions => MbqlQueryValid(NormalForm(action, m))
\* The normalized argument map satisfies the contract of its action.
ContractHolds(action, m) == Conform(ActionArgMapSpec(action), NormalForm(action, m))
ValidCall == GrammarHolds(last.action, last.argMap) /\ ContractHolds(last.action, last.argMap)

\* The conditions of the Enablement Gate, for the target of the last call.
CapabilityHolds == last.target.present /\ last.target.engine \in ActionDrivers
LocalFlagHolds == last.target.present /\ last.target.enableActions = "on"
AuthorizationHolds == currentUser \in {"none", "admin"}
GateHolds == globalFlag /\ CapabilityHolds /\ LocalFlagHolds /\ AuthorizationHolds

\* C1: perform-action! runs a handler only when the normalized argument map
\* is valid, the global flag is on, the Database's driver supports actions,
\* the Database-local flag is on and the caller is absent or an admin; when
\* one of these fails no handler runs.
C1_HandlerOnlyWhenAllChecksPass ==
    (IsPerformAction /\ HandlerInvoked) => (ValidCall /\ GateHolds)

\* A call, for an action the Database's driver has a method for, that fails
\* one check only (the global flag) and runs no handler.
C1_Witness ==
    /\ IsPerformAction /\ ValidCall /\ ~globalFlag
    /\ CapabilityHolds /\ LocalFlagHolds /\ AuthorizationHolds
    /\ ResolveMethod(last.target.engine, last.action) # NoHandler
    /\ ~HandlerInvoked /\ last.out.threw

\* C2: with a valid argument map, the global flag off and the Database-local
\* flag on, perform-action! fails with FeatureDisabled.
C2_GlobalOffIsFeatureDisabled ==
    (IsPerformAction /\ ValidCall /\ ~globalFlag /\ LocalFlagHolds)
        => (last.out.threw /\ last.out.kind = "FeatureDisabled")

\* The failure kind of the first gate check that is violated.
FirstViolatedCheck ==
    IF ~globalFlag THEN "FeatureDisabled"
    ELSE IF ~CapabilityHolds THEN "UnsupportedConnector"
    ELSE IF ~LocalFlagHolds THEN "DisabledForResource"
    ELSE "Unauthorized"

\* C3: for every combination of the four gate conditions of which one at
\* least is violated, perform-action! fails with the failure kind of the
\* first violated check in the order global flag, capability, local flag,
\* authorization.
C3_FirstViolatedCheckDecides ==
    (IsPerformAction /\ ValidCall /\ last.target.present /\ ~GateHolds)
        => (last.out.threw /\ last.out.kind = FirstViolatedCheck)

\* No method is registered for the action under the driver or an ancestor.
NoMethodForTarget == ResolveMethod(last.target.engine, last.action) = NoHandler

\* C4: a call that passes validation and the gate, for an action that has a
\* method under another driver only, fails with UnsupportedConnector (400).
C4_KnownActionIsUnsupportedConnector ==
    (/\ last.op \in {"performAction", "performActionStar"}
     /\ ValidCall /\ GateHolds
     /\ NoMethodForTarget /\ last.action \in KnownActions)
        => (last.out.kind = "UnsupportedConnector" /\ last.out.status = 400)

\* C5: a call that passes validation and the gate, for an action that has
\* no method under any driver, fails with UnknownAction (404).
C5_UnregisteredActionIsUnknownAction ==
    (/\ last.op \in {"performAction", "performActionStar"}
     /\ ValidCall /\ GateHolds
     /\ last.action \notin KnownActions)
        => (last.out.kind = "UnknownAction" /\ last.out.status = 404)

\* C6: a row-family call whose stamped query violates the query grammar
\* fails with the normalizer's query-grammar error (400), also when the map
\* violates its contract.
C6_GrammarErrorBeforeValidation ==
    (IsPerformAction /\ last.action \in RowActions /\ ~GrammarHolds(last.action, last.argMap))
        => (last.out.kind = "QueryGrammar" /\ last.out.status = 400)

\* C7: an argument map that violates the contract of its action makes
\* perform-action! fail with ValidationFailure, in every environment and
\* with no flag, Database, capability or caller consulted.
C7_ValidationBeforeGate ==
    (/\ IsPerformAction
     /\ GrammarHolds(last.action, last.argMap)
     /\ ~ContractHolds(last.action, last.argMap))
        => (last.out.kind = "ValidationFailure" /\ last.out.reads = {})

\* C8: a valid argument map whose :database is the id of no Database makes
\* perform-action! fail with NotFound (404).
C8_AbsentResourceIsNotFound ==
    (IsPerformAction /\ ValidCall /\ ArgsId(last.argMap.database) /\ ~last.target.present)
        => (last.out.kind = "NotFound" /\ last.out.status = 404)

\* C9: the row/update and row/delete contracts reject an argument map whose
\* query fragment has no filter or an empty filter.
C9_UnscopedFilterRejected ==
    (/\ IsConform /\ last.action \in {"row.update", "row.delete"}
     /\ last.argMap.query.filter.t = "absent"
        \/ (last.argMap.query.filter.t = "vector" /\ last.argMap.query.filter.n = 0))
        => last.out.kind = "ValidationFailure"

\* C10 (original): the row/create contract rejects an absent or empty
\* :create-row and the row/update contract an absent or empty :update-row.
C10_EmptyPayloadRejected ==
    /\ (IsConform /\ last.action = "row.create"
        /\ (last.argMap.createRow.t = "absent" \/ last.argMap.createRow = MapRow({})))
            => last.out.kind = "ValidationFailure"
    /\ (IsConform /\ last.action = "row.update"
        /\ (last.argMap.updateRow.t = "absent" \/ last.argMap.updateRow = MapRow({})))
            => last.out.kind = "ValidationFailure"

\* C10 (amended): the row/create contract rejects an argument map whose
\* :create-row is absent or is no map keyed by keywords, and accepts it when
\* :create-row is a keyword-keyed map, empty or not, and the common fields
\* are valid; the row/update contract does the same with :update-row, its
\* query fragment and vector filter being valid.
C10_PayloadIsKeywordMap ==
    /\ (IsConform /\ last.action = "row.create")
        => (last.out.kind = "Ok"
                <=> (/\ Common(last.argMap)
                     /\ last.argMap.createRow.t = "map"
                     /\ \A k \in last.argMap.createRow.keys : IsKeyword(k)))
    /\ (IsConform /\ last.action = "row.update")
        => (last.out.kind = "Ok"
                <=> (/\ Common(last.argMap)
                     /\ last.argMap.query.filter.t = "vector"
                     /\ last.argMap.updateRow.t = "map"
                     /\ \A k \in last.argMap.updateRow.keys : IsKeyword(k)))

\* The row/update contract has accepted an argument map with an empty
\* :update-row.
C10_Witness ==
    /\ IsConform /\ last.action = "row.update"
    /\ last.argMap.updateRow = MapRow({})
    /\ last.out.kind = "Ok"

\* C11: a bulk request passes validation exactly when every one of its rows is
\* a valid row/delete map (the empty request passes), and perform-action! fails
\* a request with an invalid row as a ValidationFailure without any handler.
C11_BatchPassesIffEveryRowValid ==
    last.op = "conformBulk" =>
        (~last.out.threw <=> \A i \in 1..Len(last.batch) : Conform("row.delete", last.batch[i]))
C11_InvalidBatchIsValidationFailure ==
    (/\ last.op = "performActionBulk"
     /\ \E i \in 1..Len(last.batch) : ~Conform("row.delete", last.batch[i]))
        => (last.out.kind = "ValidationFailure" /\ ~HandlerInvoked)

\* C12: with a caller bound, perform-action! reaches a handler only for an
\* admin and fails every other caller, once the global, capability and
\* Database-local checks have passed, as Unauthorized (403).
C12_NonAdminIsUnauthorized ==
    (/\ IsPerformAction /\ ValidCall /\ globalFlag /\ CapabilityHolds /\ LocalFlagHolds
     /\ currentUser = "user")
        => (last.out.kind = "Unauthorized" /\ last.out.status = 403 /\ ~HandlerInvoked)

\* The status code the Errors section gives each failure kind.
StatusOfKind(kind) ==
    CASE kind \in {"FeatureDisabled", "UnsupportedConnector", "DisabledForResource",
                   "ValidationFailure", "QueryGrammar"} -> 400
      [] kind = "Unauthorized" -> 403
      [] kind \in {"NotFound", "UnknownAction"} -> 404
      [] OTHER -> NoStatus

\* C15: every failure perform-action! produces itself (no handler ran) carries
\* the status code of its kind, 400, 403 or 404, and never none.
C15_EveryFailureHasItsStatus ==
    (IsPerformAction /\ last.out.threw /\ ~HandlerInvoked)
        => (last.out.status # NoStatus /\ last.out.status = StatusOfKind(last.out.kind))

\* C16: when validation and every gate check pass and a method is registered
\* for the Database's driver and the action, perform-action! runs that method
\* on the normalized argument map and hands on what the method returned or
\* threw.
C16_HandlerRunsWhenAllPass ==
    (/\ IsPerformAction /\ ValidCall /\ GateHolds
     /\ ResolveMethod(last.target.engine, last.action) # NoHandler)
        => (/\ last.out.handler = ResolveMethod(last.target.engine, last.action)
            /\ last.out.args = NormalForm(last.action, last.argMap)
            /\ last.out.kind \in {"Ok", "HandlerFailure"})

\* C19: perform-action! applies the normalizer of the requested action to the
\* raw argument map: a row action goes on with the canonicalized query stamped
\* as a query, any other action with the raw map unchanged.
C19_NormalizerOfActionApplied ==
    (IsPerformAction /\ GrammarHolds(last.action, last.argMap))
        => (/\ last.out.kind # "ArityException"
            /\ last.out.args = NormalForm(last.action, last.argMap))

\* The method registered for the driver or, failing that, for its parent, and
\* so on up the hierarchy; NoHandler (the default) when the walk finds none.
RECURSIVE NearestHandler(_, _)
NearestHandler(driver, action) ==
    IF <<driver, action>> \in registry THEN <<driver, action>>
    ELSE IF Parent(driver) = "none" THEN NoHandler
    ELSE NearestHandler(Parent(driver), action)

\* C20: perform-action!* runs the method registered for exactly (driver,
\* action), else the one of the nearest ancestor of the driver that has one
\* for the action, and falls to the default only when neither exists.
C20_NearestHandlerResolved ==
    last.op = "performActionStar" => last.out.handler = NearestHandler(last.target.engine, last.action)

\* A call for an h2 Database when only the two ancestors of h2 have a method:
\* the method of the nearer one, sql-jdbc, runs.
C20_Witness ==
    /\ last.op = "performActionStar" /\ last.target.engine = "h2" /\ last.action = "row/create"
    /\ <<"h2", "row/create">> \notin registry
    /\ {<<"sql", "row/create">>, <<"sql-jdbc", "row/create">>} \subseteq registry
    /\ last.out.handler = <<"sql-jdbc", "row/create">>

\* C18: the normalizer of the row actions is idempotent: applied to a query
\* it has returned, it returns that same query again.
C18_NormalizerIdempotent ==
    (last.op = "normalize" /\ ~last.out.threw)
        => NormalizeAsMbqlQuery(last.out.args) = Returned(last.out.args)

\* A legacy-shaped argument map without :type that the normalizer rewrote,
\* stamped and returned.
C18_Witness ==
    /\ last.op = "normalize" /\ ~last.out.threw
    /\ last.argMap.query.legacy /\ last.argMap.type = "absent"
    /\ last.out.args # last.argMap

\* C17: with the global flag off the outcome of perform-action! does not
\* depend on the Databases: whatever changes in the application database, the
\* same call has the same outcome before and after, and does not read the
\* Databases.
C17_GlobalOffIgnoresStore ==
    [][(~globalFlag /\ store' # store /\ UNCHANGED <<globalFlag, currentUser, registry, last, threads, session>>)
          => \A action \in Actions, m \in CallArgMaps, hres \in HandlerResults, nilCap \in NilCapabilities :
                /\ PerformAction(action, m, hres, nilCap)' = PerformAction(action, m, hres, nilCap)
                /\ "store" \notin PerformAction(action, m, hres, nilCap).reads]_vars

\* A call with the global flag off whose target is a Database of the store
\* that has actions enabled: it fails without the store having been read.
C17_Witness ==
    /\ IsPerformAction /\ ~globalFlag /\ last.target.present /\ LocalFlagHolds
    /\ last.out.threw /\ "store" \notin last.out.reads

\* The Database a thread's call is for.
ThreadTarget(t) == Database(threads[t].argMap.database)

C21_UnregisteredActionPassesThrough ==
    (IsPerformAction /\ last.action = "row/frob")
        => (/\ last.out.kind \notin {"ArityException", "QueryGrammar", "ValidationFailure"}
            /\ last.out.args = last.argMap)

\* C22: for a bulk request of valid row/delete maps that all name one
\* Database of the store, perform-action! looks that Database up and runs
\* its gate checks against it.
C22_BulkTargetsItsDatabase ==
    (/\ last.op = "performActionBulk" /\ globalFlag /\ last.batch # <<>>
     /\ \A i \in 1..Len(last.batch) :
            /\ Conform("row.delete", last.batch[i])
            /\ last.batch[i].database = last.batch[1].database
     /\ Database(last.batch[1].database).present)
        => (/\ "store" \in last.out.reads
            /\ last.out.kind \notin {"ArityException", "ValidationFailure"}
            /\ last.target = Database(last.batch[1].database))

\* C23: +check-actions-enabled calls the handler it wraps exactly when the
\* global flag is on; with the flag off it does not call it and raises an
\* error of status code 403.
C23_MiddlewareRaises403 ==
    last.op = "checkActionsEnabled"
        => (/\ globalFlag <=> last.out.handler = RingHandler
            /\ ~globalFlag => (last.out.threw /\ last.out.status = 403))

\* The type of the action a step passes to the middleware.
ArrivedType == session'.received[Len(session'.received)]
ActionArrives == Len(session'.received) = Len(session.received) + 1

\* C24: at most one timer set by the middleware is live, the one it
\* remembers; a timer is set only by the first action or by an action whose
\* type is in resetActions, after the timer before it was cleared; any other
\* action leaves the timer and the remembered login status as they were.
C24_OneTimerResetOnlyByResetActions ==
    [][/\ Cardinality(session'.live) <= 1
       /\ session'.intervalId # NoTimer => session'.live = {session'.intervalId}
       /\ session'.intervalId # session.intervalId =>
            /\ ActionArrives
            /\ session.intervalId = NoTimer \/ ArrivedType \in session.resetActions
            /\ session.intervalId \notin session'.live
       /\ (ActionArrives /\ session.intervalId # NoTimer /\ ArrivedType \notin session.resetActions) =>
            /\ session'.intervalId = session.intervalId
            /\ session'.live = session.live
            /\ session'.wasLoggedIn = session.wasLoggedIn]_vars

\* The second action was a reset action: the first timer is cleared, the
\* second one is live.
C24_Witness ==
    /\ Len(session.received) = 2 /\ session.received[2] \in session.resetActions
    /\ session.created = 2 /\ session.intervalId = 2 /\ session.live = {2}

\* C25: every action passed to the middleware is passed on to next, once
\* and in the order of arrival, whether or not it resets the timer and
\* whatever the timers do.
C25_EveryActionForwardedInOrder == session.forwarded = session.received

\* Two actions went through, the second of which reset the timer, while a
\* timer fired.
C25_Witness ==
    /\ Len(session.received) = 2 /\ session.received[2] \in session.resetActions
    /\ session.received[1] # session.received[2]
    /\ session.ticks > 0
    /\ session.forwarded = session.received

\* What a callback dispatches for the login status.
IsStatusDispatch(e) == e.what \in {"refreshSession", "logout"}

\* C26: a firing of a timer dispatches refreshSession when the cookie went
\* from absent to present since what the timer remembers, logout when it
\* went from present to absent, and nothing when it did not change; so one
\* timer never dispatches the same of the two twice in a row; replace is
\* dispatched only once the refreshSession of the same firing has completed,
\* and only for a redirect parameter of the same origin.
C26_TickDispatchesOnChangeOnly ==
    \A k \in 1..Len(session.log) :
        LET e == session.log[k]
        IN  /\ e.what = "refreshSession" => (~e.was /\ e.seen)
            /\ e.what = "logout" => (e.was /\ ~e.seen)
            /\ e.what = "nothing" => (e.was = e.seen)
            /\ IsStatusDispatch(e) =>
                  \A j \in 1..(k - 1) :
                      (session.log[j].timer = e.timer /\ session.log[j].what = e.what)
                          => \E m \in (j + 1)..(k - 1) :
                                /\ session.log[m].timer = e.timer
                                /\ IsStatusDispatch(session.log[m])
                                /\ session.log[m].what # e.what
            /\ e.what = "replace" =>
                  /\ session.redirect = "sameOrigin"
                  /\ \E j \in 1..(k - 1) :
                        /\ session.log[j].what = "refreshDone"
                        /\ session.log[j].timer = e.timer /\ session.log[j].tick = e.tick
                        /\ \E m \in 1..(j - 1) :
                              /\ session.log[m].what = "refreshSession"
                              /\ session.log[m].timer = e.timer /\ session.log[m].tick = e.tick

\* One timer saw the cookie appear, dispatched refreshSession and then
\* replace, fired without a change, then saw the cookie go and dispatched
\* logout.
C26_Witness ==
    \E j, k, m, n \in 1..Len(session.log) :
        /\ j < k /\ k < n
        /\ session.log[j].what = "refreshSession" /\ session.log[k].what = "replace"
        /\ session.log[k].tick = session.log[j].tick
        /\ session.log[n].what = "logout" /\ session.log[n].timer = session.log[j].timer
        /\ session.log[m].what = "nothing" /\ session.log[m].timer = session.log[j].timer
====
